---- MODULE Spec2Model ----
(***************************************************************************)
(* A model of microscopium/screens/cellomics.py: the Cellomics file name   *)
(* decoder, the channel grouping, the 5x5 snail stitch, the 12-bit         *)
(* rescale, the 3-channel stack and the batch pipeline that ties them.     *)
(*                                                                         *)
(* Each function of the source is one component of the model, with its     *)
(* own variables and its own specification (SpecStitch, SpecGroup, ...).   *)
(* A specification leaves the other components' variables at their idle    *)
(* values.                                                                 *)
(***************************************************************************)
EXTENDS Integers, Sequences, FiniteSets, TLC

VARIABLES
    \* snail_stitch
    fns,        \* the caller's list object passed to snail_stitch
    fns0,       \* history: the list's contents before the call
    tileShape,  \* <<m, n>>: the pixel shape every tile file decodes to
    pcS,        \* "call" | "loop" | "return" | "done"
    cell,       \* <<i, j>>: the loop indices of lines 167-168
    stitched,   \* the tiles copied into stitched_image so far
    resS,       \* "none" | "image" | "IndexError"
    \* channel grouping of batch_stitch_stack (lines 46-48)
    acq,        \* the acquisition: the channel index of each file, in order
    channels,   \* the dict built by groupby and padded by the while loop
    pcG,        \* "groupby" | "pad" | "done"
    \* stack_channels
    images,     \* the 3 entries passed in
    order,      \* the order argument
    pcK,        \* "call" | "loop" | "done"
    idxK,       \* the loop index i of line 133
    concat,     \* concat_image: None before allocation
    resK,       \* "none" | "image" | "AttributeError"
    \* cellomics_semantic_filename
    fn,         \* the file name, a sequence of characters
    resD,       \* the returned record, or the raised error
    pcD,        \* "call" | "done"
    \* rescale_from_12bit
    pixel,      \* a pixel value of the 12-bit image
    depth,      \* target_bit_depth
    resR,       \* the rescaled pixel, as a fraction <<numerator, denominator>>
    pcR,        \* "call" | "done"
    \* batch_stitch_stack run by workers over a shared output root
    wells,      \* per well: its plate and the channels it has files for
    todo,       \* per worker: the wells still to process (file_dict.values())
    pcB,        \* per worker: position in the loop body of lines 40-64
    chanB,      \* per worker: index into the sorted channel items
    dirs,       \* the plate directories that exist under the output root
    written,    \* the wells whose output image has been written
    stitchedOk, \* history: per well, the channels whose stitch succeeded
    rescaledOk, \* history: per well, the channels whose rescale succeeded
    stackedOk,  \* history: the wells whose stack_channels succeeded
    failedB,    \* history: the wells for which a stitch/rescale/stack failed
    errB        \* per worker: the exception that ended its run, or "none"

stitchVars == <<fns, fns0, tileShape, pcS, cell, stitched, resS>>
groupVars == <<acq, channels, pcG>>
stackVars == <<images, order, pcK, idxK, concat, resK>>
decodeVars == <<fn, resD, pcD>>
rescaleVars == <<pixel, depth, resR, pcR>>
batchVars == <<wells, todo, pcB, chanB, dirs, written, stitchedOk, rescaledOk,
               stackedOk, failedB, errB>>
vars == <<stitchVars, groupVars, stackVars, decodeVars, rescaleVars, batchVars>>

\* Python's None and a value that is not None: an optional value is the empty
\* set or the set of the one value
None == {}
Some(x) == {x}
The(o) == CHOOSE x \in o : TRUE

(***************************************************************************)
(* Bounds of the model.                                                    *)
(***************************************************************************)
\* snail_stitch is called with 25 - MaxLenDelta .. 25 + MaxLenDelta files
MaxLenDelta == 1
\* tiles are 1..MaxTile pixels high and wide
MaxTile == 2
\* an acquisition has 1..MaxFiles files, of channels 0..MaxChannel
MaxFiles == 3
MaxChannel == 3
\* the images given to stack_channels are 1..MaxSide pixels high and wide,
\* with pixel values 1..MaxValue
MaxSide == 2
MaxValue == 2
\* a file name's stem is 1..MaxSegs segments joined by underscores
MaxSegs == 5
\* the batch: NumWorkers workers share NumWells wells of NumPlates plates
NumWorkers == 2
NumWells == 3
NumPlates == 2

(***************************************************************************)
(* Idle values: a component that a specification does not run.             *)
(***************************************************************************)
IdleStitch ==
    /\ fns = << >> /\ fns0 = << >> /\ tileShape = <<0, 0>> /\ pcS = "idle"
    /\ cell = <<0, 0>> /\ stitched = {} /\ resS = "none"

IdleGroup == acq = << >> /\ channels = << >> /\ pcG = "idle"

IdleStack ==
    /\ images = << >> /\ order = << >> /\ pcK = "idle" /\ idxK = 0
    /\ concat = None /\ resK = "none"

IdleDecode == fn = << >> /\ resD = [kind |-> "none"] /\ pcD = "idle"

IdleRescale == pixel = 0 /\ depth = 0 /\ resR = <<0, 1>> /\ pcR = "idle"

IdleBatch ==
    /\ wells = << >> /\ todo = << >> /\ pcB = << >> /\ chanB = << >>
    /\ dirs = {} /\ written = {} /\ stitchedOk = << >> /\ rescaledOk = << >>
    /\ stackedOk = {} /\ failedB = {} /\ errB = << >>

(***************************************************************************)
(* snail_stitch (lines 139-172).                                           *)
(*                                                                         *)
(* The file names of one (plate, well, channel) differ only in the two     *)
(* digits of the field index, so a name is modelled by those two           *)
(* characters (as digit values); the characters before and after them are  *)
(* equal in all names and never decide a comparison.                       *)
(***************************************************************************)
NumTiles == 25
GridSize == 5

\* the two-digit field encoding of the file name convention: f00 .. f99
FieldName(f) == <<f \div 10, f % 10>>

\* Python's str comparison: by the first differing character, then by length
RECURSIVE LexLess(_, _)
LexLess(a, b) ==
    IF a = << >> THEN b # << >>
    ELSE IF b = << >> THEN FALSE
    ELSE IF Head(a) # Head(b) THEN Head(a) < Head(b)
    ELSE LexLess(Tail(a), Tail(b))

\* a plausible slip: the list is used in the order it was given
ListSortUnsorted(s) == s

\* list.sort() on a list of str
ListSort(s) == SortSeq(s, LexLess)

\* the spiral table of lines 157-161 (rows and columns from 1 here)
SnailOrder ==
    << <<20, 21, 22, 23, 24>>,
       <<19,  6,  7,  8,  9>>,
       <<18,  5,  0,  1, 10>>,
       <<17,  4,  3,  2, 11>>,
       <<16, 15, 14, 13, 12>> >>

\* the input lists: rotations, reversed rotations and adjacent swaps of the
\* names of fields 0 .. n-1
Rotated(n, k) == [p \in 1..n |-> FieldName((p - 1 + k) % n)]
Reversed(n, k) == [p \in 1..n |-> FieldName((n - p + k) % n)]
Swapped(n, k) ==
    [p \in 1..n |-> FieldName(IF p = k + 1 THEN (k + 1) % n
                              ELSE IF p = ((k + 1) % n) + 1 THEN k
                              ELSE p - 1)]

FileLists ==
    UNION { {Rotated(n, k), Reversed(n, k), Swapped(n, k)} :
            n \in (NumTiles - MaxLenDelta)..(NumTiles + MaxLenDelta),
            k \in 0..(NumTiles - MaxLenDelta - 1) }

InitStitch ==
    /\ fns \in FileLists
    /\ fns0 = fns
    /\ tileShape \in (1..MaxTile) \X (1..MaxTile)
    /\ pcS = "call"
    /\ cell = <<0, 0>>
    /\ stitched = {}
    /\ resS = "none"
    /\ IdleGroup /\ IdleStack /\ IdleDecode /\ IdleRescale /\ IdleBatch

\* lines 156-166: sort the argument in place, read the first tile for the
\* shape, allocate the output
SnailSort ==
    /\ pcS = "call"
    /\ fns' = ListSort(fns)
    /\ IF Len(fns) = 0
       THEN pcS' = "done" /\ resS' = "IndexError"
       ELSE pcS' = "loop" /\ resS' = resS
    /\ UNCHANGED <<fns0, tileShape, cell, stitched>>
    /\ UNCHANGED <<groupVars, stackVars, decodeVars, rescaleVars, batchVars>>

\* lines 169-171: one iteration of the double loop
SnailPlace ==
    /\ pcS = "loop"
    /\ LET i == cell[1]
           j == cell[2]
           m == tileShape[1]
           n == tileShape[2]
           index == SnailOrder[i + 1][j + 1]
       IN IF index >= Len(fns)
          THEN /\ pcS' = "done"
               /\ resS' = "IndexError"
               /\ UNCHANGED <<cell, stitched>>
          ELSE /\ stitched' = {t \in stitched : ~(t.row = m * i /\ t.col = n * j)}
                      \cup {[row |-> m * i, col |-> n * j, height |-> m,
                             width |-> n, tile |-> fns[index + 1]]}
               /\ cell' = IF j + 1 < GridSize THEN <<i, j + 1>> ELSE <<i + 1, 0>>
               /\ pcS' = IF j + 1 = GridSize /\ i + 1 = GridSize
                         THEN "return" ELSE "loop"
               /\ resS' = resS
    /\ UNCHANGED <<fns, fns0, tileShape>>
    /\ UNCHANGED <<groupVars, stackVars, decodeVars, rescaleVars, batchVars>>

\* line 172
SnailReturn ==
    /\ pcS = "return"
    /\ pcS' = "done"
    /\ resS' = "image"
    /\ UNCHANGED <<fns, fns0, tileShape, cell, stitched>>
    /\ UNCHANGED <<groupVars, stackVars, decodeVars, rescaleVars, batchVars>>

NextStitch == SnailSort \/ SnailPlace \/ SnailReturn

SpecStitch == InitStitch /\ [][NextStitch]_vars

\* the 25 names of fields 00 .. 24, in any order
IsFullFieldSet(s) ==
    /\ Len(s) = NumTiles
    /\ {s[p] : p \in 1..Len(s)} = {FieldName(f) : f \in 0..(NumTiles - 1)}

\* the tiles copied to pixel offset (r, c) of stitched_image
TilesAt(r, c) == {t \in stitched : t.row = r /\ t.col = c}

\* C1: for every input ordering of the 25 names of fields 00..24, the
\* stitched image holds, at pixel offset (m*i, n*j), the tile of the field f
\* with order[i][j] = f; every field fills exactly one of the 25 cells,
\* field 0 the centre cell (2, 2) and field 9 the cell (1, 4).
C1_SpiralPlacement ==
    (pcS = "done" /\ IsFullFieldSet(fns0)) =>
        LET m == tileShape[1]
            n == tileShape[2]
        IN /\ resS = "image"
           /\ \A i, j \in 0..(GridSize - 1) :
                 \E t \in stitched :
                   /\ TilesAt(m * i, n * j) = {t}
                   /\ t.tile = FieldName(SnailOrder[i + 1][j + 1])
                   /\ t.height = m /\ t.width = n
           /\ Cardinality(stitched) = NumTiles
           /\ \A f \in 0..(NumTiles - 1) :
                 Cardinality({t \in stitched : t.tile = FieldName(f)}) = 1
           /\ \E t \in TilesAt(m * 2, n * 2) : t.tile = FieldName(0)
           /\ \E t \in TilesAt(m * 1, n * 4) : t.tile = FieldName(9)

\* a call on the 25 names given in an order that is not the sorted one
\* (field 24 first) has returned its image
C1_Witness ==
    /\ pcS = "done" /\ resS = "image"
    /\ IsFullFieldSet(fns0)
    /\ fns0[1] = FieldName(24)
    /\ \E t \in stitched : t.tile = FieldName(24) /\ t.row = 0

\* C5: a call with a list of any length other than 25 fails with a
\* tile-count error; only a list of exactly 25 names yields an image.
C5_TileCountChecked ==
    pcS = "done" =>
        IF Len(fns0) = NumTiles THEN resS = "image" ELSE resS = "TileCountError"

\* C10: the caller's list holds the same names in the same order after the
\* call as before it.
C10_ArgumentUnchanged == pcS = "done" => fns = fns0

(***************************************************************************)
(* The channel grouping of batch_stitch_stack (lines 46-48).               *)
(*                                                                         *)
(* A file of the acquisition is its position in the list; acq[p] is the    *)
(* channel get_channel decodes from its name.  The dict is a function      *)
(* whose domain is the set of keys.                                        *)
(***************************************************************************)
Max(S) == CHOOSE x \in S : \A y \in S : y <= x
Min(S) == CHOOSE x \in S : \A y \in S : x <= y

\* cytoolz.groupby(get_channel, fns): key -> the files of that key, in the
\* order of the input
FilesOfChannel(a, c) == SelectSeq([p \in 1..Len(a) |-> p], LAMBDA p : a[p] = c)

GroupByChannel(a) ==
    [c \in {a[p] : p \in 1..Len(a)} |-> Some(FilesOfChannel(a, c))]

\* line 48: channels[np.max(list(channels.keys())) + 1] = None
PadOnce(ch) ==
    [c \in DOMAIN ch \cup {Max(DOMAIN ch) + 1} |->
        IF c \in DOMAIN ch THEN ch[c] ELSE None]

\* lines 47-48: the while loop, run to its end
RECURSIVE PadChannels(_)
PadChannels(ch) ==
    IF Cardinality(DOMAIN ch) < 3 THEN PadChannels(PadOnce(ch)) ELSE ch

Acquisitions ==
    UNION {[1..n -> 0..MaxChannel] : n \in 1..MaxFiles}

InitGroup ==
    /\ acq \in Acquisitions
    /\ channels = << >>
    /\ pcG = "groupby"
    /\ IdleStitch /\ IdleStack /\ IdleDecode /\ IdleRescale /\ IdleBatch

\* line 46
GroupBy ==
    /\ pcG = "groupby"
    /\ channels' = GroupByChannel(acq)
    /\ pcG' = "pad"
    /\ UNCHANGED acq
    /\ UNCHANGED <<stitchVars, stackVars, decodeVars, rescaleVars, batchVars>>

\* lines 47-48: one iteration of the while loop
PadStep ==
    /\ pcG = "pad"
    /\ Cardinality(DOMAIN channels) < 3
    /\ channels' = PadOnce(channels)
    /\ UNCHANGED <<acq, pcG>>
    /\ UNCHANGED <<stitchVars, stackVars, decodeVars, rescaleVars, batchVars>>

\* line 47: the loop condition is false
PadDone ==
    /\ pcG = "pad"
    /\ Cardinality(DOMAIN channels) >= 3
    /\ pcG' = "done"
    /\ UNCHANGED <<acq, channels>>
    /\ UNCHANGED <<stitchVars, stackVars, decodeVars, rescaleVars, batchVars>>

NextGroup == GroupBy \/ PadStep \/ PadDone

SpecGroup == InitGroup /\ [][NextGroup]_vars

\* C2: when the highest channel index of a (non-empty) acquisition is below
\* 2, the padded grouping has an entry for each of 0, 1 and 2: the files of
\* the channel where it has files, None where it has none.
C2_ThreeChannelSlots ==
    (pcG = "done" /\ Max({acq[p] : p \in 1..Len(acq)}) < 2) =>
        /\ {0, 1, 2} \subseteq DOMAIN channels
        /\ \A c \in {0, 1, 2} :
             channels[c] = IF FilesOfChannel(acq, c) # << >>
                           THEN Some(FilesOfChannel(acq, c)) ELSE None

(***************************************************************************)
(* stack_channels (lines 104-136).                                         *)
(*                                                                         *)
(* An image is a record of its shape and its pixels; an absent entry is    *)
(* None.  The entries that are present share one shape and one dtype, as   *)
(* the images of one well do.                                              *)
(***************************************************************************)
Pixels(shape) == (1..shape[1]) \X (1..shape[2])

Filled(shape, v) == [shape |-> shape, px |-> [p \in Pixels(shape) |-> v]]

\* np.zeros((m, n, 3)): the three channel planes
Zeros(shape) == [p \in Pixels(shape) |-> 0]

Orders ==
    {o \in [1..3 -> 0..2] : {o[c] : c \in 1..3} = {0, 1, 2}}

ImageLists ==
    UNION { [1..3 -> {None} \cup {Some(Filled(sh, v)) : v \in 1..MaxValue}] :
            sh \in (1..MaxSide) \X (1..MaxSide) }

InitStack ==
    /\ images \in ImageLists
    /\ order \in Orders
    /\ pcK = "call"
    /\ idxK = 0
    /\ concat = None
    /\ resK = "none"
    /\ IdleStitch /\ IdleGroup /\ IdleDecode /\ IdleRescale /\ IdleBatch

\* the entry whose shape and dtype size the output (lines 129-131)
ShapeSource(imgs) == imgs[1]

\* lines 129-132: the shape of images[0], then the zero-filled output;
\* None has no attribute shape
StackAllocate ==
    /\ pcK = "call"
    /\ IF ShapeSource(images) = None
       THEN /\ resK' = "AttributeError"
            /\ pcK' = "done"
            /\ UNCHANGED concat
       ELSE /\ concat' = Some([shape |-> The(ShapeSource(images)).shape,
                               ch |-> [c \in 1..3 |->
                                         Zeros(The(ShapeSource(images)).shape)]])
            /\ pcK' = "loop"
            /\ UNCHANGED resK
    /\ UNCHANGED <<images, order, idxK>>
    /\ UNCHANGED <<stitchVars, groupVars, decodeVars, rescaleVars, batchVars>>

\* lines 133-135: one iteration of the loop
StackCopy ==
    /\ pcK = "loop"
    /\ idxK < 3
    /\ LET src == images[order[idxK + 1] + 1]
       IN concat' = IF src # None
                    THEN Some([The(concat) EXCEPT !.ch[idxK + 1] = The(src).px])
                    ELSE concat
    /\ idxK' = idxK + 1
    /\ UNCHANGED <<images, order, pcK, resK>>
    /\ UNCHANGED <<stitchVars, groupVars, decodeVars, rescaleVars, batchVars>>

\* line 136
StackReturn ==
    /\ pcK = "loop"
    /\ idxK = 3
    /\ pcK' = "done"
    /\ resK' = "image"
    /\ UNCHANGED <<images, order, idxK, concat>>
    /\ UNCHANGED <<stitchVars, groupVars, decodeVars, rescaleVars, batchVars>>

NextStack == StackAllocate \/ StackCopy \/ StackReturn

SpecStack == InitStack /\ [][NextStack]_vars

Present(imgs) == {p \in 1..3 : imgs[p] # None}

\* C3: for 3 entries, each an image or None, and any permutation order, the
\* call returns an image whose channel c is images[order[c]] where that
\* entry is present and all zeros where it is None.
C3_ChannelsPlaced ==
    pcK = "done" =>
        /\ resK = "image"
        /\ \A c \in 0..2 :
             LET src == images[order[c + 1] + 1]
                 out == The(concat).ch[c + 1]
             IN IF src # None
                THEN out = The(src).px
                ELSE \A p \in DOMAIN out : out[p] = 0

\* C4: whenever one of the 3 entries is present, also when images[0] is
\* None, the call returns an image with the height and width of the first
\* present entry.
C4_ShapeOfFirstPresent ==
    (pcK = "done" /\ Present(images) # {}) =>
        /\ resK = "image"
        /\ The(concat).shape = The(images[Min(Present(images))]).shape

(***************************************************************************)
(* cellomics_semantic_filename (lines 244-279).                            *)
(*                                                                         *)
(* A file name is a sequence of one-character strings.                     *)
(***************************************************************************)
DigitChars == <<"0", "1", "2", "3", "4", "5", "6", "7", "8", "9">>

IsDigit(c) == \E d \in 1..10 : DigitChars[d] = c

DigitValue(c) == (CHOOSE d \in 1..10 : DigitChars[d] = c) - 1

\* the positions of character c in s
Positions(s, c) == {p \in 1..Len(s) : s[p] = c}

\* str.split(sep): the pieces between the separators, empty ones included
RECURSIVE Split(_, _)
Split(s, sep) ==
    IF Positions(s, sep) = {} THEN <<s>>
    ELSE LET p == Min(Positions(s, sep))
         IN <<SubSeq(s, 1, p - 1)>> \o Split(SubSeq(s, p + 1, Len(s)), sep)

\* sep.join(parts)
RECURSIVE Join(_, _)
Join(parts, sep) ==
    IF parts = << >> THEN << >>
    ELSE IF Len(parts) = 1 THEN parts[1]
    ELSE parts[1] \o <<sep>> \o Join(Tail(parts), sep)

\* str.rstrip('/')
RECURSIVE RStripSlash(_)
RStripSlash(s) ==
    IF s # << >> /\ s[Len(s)] = "/" THEN RStripSlash(SubSeq(s, 1, Len(s) - 1))
    ELSE s

\* os.path.split (posixpath): at the last slash; the head loses its trailing
\* slashes unless it is slashes only
PathSplit(s) ==
    IF Positions(s, "/") = {} THEN [head |-> << >>, tail |-> s]
    ELSE LET p == Max(Positions(s, "/"))
             h == SubSeq(s, 1, p)
         IN [head |-> IF RStripSlash(h) = << >> THEN h ELSE RStripSlash(h),
             tail |-> SubSeq(s, p + 1, Len(s))]

\* s[a:b] for 0 <= a <= b
Slice(s, a, b) == SubSeq(s, a + 1, IF b < Len(s) THEN b ELSE Len(s))

\* int(s) accepts a non-empty string of digits (no sign or blank occurs in
\* the names of the model)
IsInt(s) == s # << >> /\ \A p \in 1..Len(s) : IsDigit(s[p])

RECURSIVE IntOf(_)
IntOf(s) ==
    IF s = << >> THEN 0
    ELSE 10 * IntOf(SubSeq(s, 1, Len(s) - 1)) + DigitValue(s[Len(s)])

\* lines 270-271: the '_stitched' tag is dropped
DropTag(segs) ==
    IF Len(segs) = 4 THEN SubSeq(segs, 1, 3) ELSE segs

\* lines 264-279.  The unpacking of line 273 raises ValueError unless there
\* are exactly 3 segments; int() raises ValueError on a non-number.
SemanticFilename(name) ==
    LET parts == PathSplit(name)
        dotted == Split(parts.tail, ".")
        filename == dotted[1]
        suffix == Join(Tail(dotted), ".")
        split_fn == DropTag(Split(filename, "_"))
    IN IF Len(split_fn) # 3 THEN [kind |-> "ValueError"]
       ELSE LET prefix == split_fn[1]
                plate == split_fn[2]
                code == split_fn[3]
            IN IF ~IsInt(Slice(code, 4, 6)) THEN [kind |-> "ValueError"]
               ELSE IF ~IsInt(<<code[Len(code)]>>) THEN [kind |-> "ValueError"]
               ELSE IF ~IsInt(plate) THEN [kind |-> "ValueError"]
               ELSE [kind |-> "record",
                     directory |-> parts.head,
                     prefix |-> prefix,
                     plate |-> IntOf(plate),
                     well |-> Slice(code, 0, 3),
                     field |-> IntOf(Slice(code, 4, 6)),
                     channel |-> IntOf(<<code[Len(code)]>>),
                     suffix |-> suffix]

\* the segments a stem is built from: a prefix, a plate number, a well code,
\* a tag, and the empty segment
Segments ==
    { <<"M">>, <<"1", "4">>, <<"A", "0", "1", "f", "0", "3", "d", "2">>,
      <<"s">>, << >> }

FileNames ==
    { dir \o Join(segs, "_") \o <<".", "T", "I", "F">> :
        dir \in {<< >>, <<"d", "/">>},
        segs \in UNION {[1..n -> Segments] : n \in 1..MaxSegs} }

InitDecode ==
    /\ fn \in FileNames
    /\ resD = [kind |-> "none"]
    /\ pcD = "call"
    /\ IdleStitch /\ IdleGroup /\ IdleStack /\ IdleRescale /\ IdleBatch

Decode ==
    /\ pcD = "call"
    /\ resD' = SemanticFilename(fn)
    /\ pcD' = "done"
    /\ UNCHANGED fn
    /\ UNCHANGED <<stitchVars, groupVars, stackVars, rescaleVars, batchVars>>

NextDecode == Decode

SpecDecode == InitDecode /\ [][NextDecode]_vars

\* the underscore-separated segments of the stem of a file name
StemSegments(name) == Split(Split(PathSplit(name).tail, ".")[1], "_")

\* C6: a stem of exactly 3 segments is decoded as (prefix, plate, code), a
\* stem of exactly 4 segments as its first 3, and every other segment count
\* fails with the dedicated malformed-filename error, with no record.
C6_SegmentCount ==
    pcD = "done" =>
        LET segs == StemSegments(fn)
        IN IF Len(segs) \in {3, 4}
           THEN resD.kind = "record" =>
                    /\ resD.prefix = segs[1]
                    /\ resD.plate = IntOf(segs[2])
                    /\ resD.well = Slice(segs[3], 0, 3)
           ELSE resD.kind = "MalformedFilenameError"

(***************************************************************************)
(* rescale_from_12bit (lines 67-101), on one pixel.                        *)
(*                                                                         *)
(* A real number is a fraction <<p, q>> with q > 0.  The float product of  *)
(* line 96 is within 1e-12 of the exact one, and no exact product          *)
(* v*255/4095 is nearer than 1/546 to a half, so rounding the exact        *)
(* fraction gives the value numpy's rounding gives.                        *)
(***************************************************************************)
MaxPixel12 == 4095
Scale8 == 255
Scale16 == 65535

\* stretchlim with clip bounds spanning the full 12-bit domain: v / 4095
Stretchlim(v) == <<v, MaxPixel12>>

\* a slip: the product is truncated, as a bare astype(np.uint8) would
NpRoundTruncating(x) == x[1] \div x[2]

\* np.round of a non-negative fraction: to the nearest integer, a half to
\* the even neighbour
NpRound(x) ==
    LET fl == x[1] \div x[2]
        twice == 2 * (x[1] % x[2])
    IN IF twice < x[2] THEN fl
       ELSE IF twice > x[2] THEN fl + 1
       ELSE IF fl % 2 = 0 THEN fl ELSE fl + 1

\* astype(np.uint8), astype(np.uint16) of a non-negative integer
AsUnsigned(k, bits) == k % (2 ^ bits)

\* lines 94-101
RescaleFrom12bit(v, target_bit_depth) ==
    LET image == Stretchlim(v)
    IN IF target_bit_depth = 8
       THEN <<AsUnsigned(NpRound(<<image[1] * Scale8, image[2]>>), 8), 1>>
       ELSE IF target_bit_depth = 16
       THEN <<AsUnsigned(NpRound(<<image[1] * Scale16, image[2]>>), 16), 1>>
       ELSE image

\* 8, 16, and a depth that is neither (None)
Depths == {8, 16, 0}

InitRescale ==
    /\ pixel \in 0..MaxPixel12
    /\ depth \in Depths
    /\ resR = <<0, 1>>
    /\ pcR = "call"
    /\ IdleStitch /\ IdleGroup /\ IdleStack /\ IdleDecode /\ IdleBatch

Rescale ==
    /\ pcR = "call"
    /\ resR' = RescaleFrom12bit(pixel, depth)
    /\ pcR' = "done"
    /\ UNCHANGED <<pixel, depth>>
    /\ UNCHANGED <<stitchVars, groupVars, stackVars, decodeVars, batchVars>>

NextRescale == Rescale

SpecRescale == InitRescale /\ [][NextRescale]_vars

Abs(x) == IF x < 0 THEN -x ELSE x

\* C7: with the stretch v -> v/4095 and target depth 8, every pixel v of
\* 0..4095 becomes the integer nearest to v*255/4095, which lies in 0..255;
\* 0 -> 0, 2047 -> 127 and 4095 -> 255.
C7_NearestInteger8 ==
    (pcR = "done" /\ depth = 8) =>
        /\ resR[2] = 1
        /\ resR[1] \in 0..255
        /\ \A k \in 0..255 :
             k # resR[1] =>
               Abs(resR[1] * 4095 - pixel * 255) < Abs(k * 4095 - pixel * 255)
        /\ (pixel = 0 => resR[1] = 0)
        /\ (pixel = 2047 => resR[1] = 127)
        /\ (pixel = 4095 => resR[1] = 255)

\* the pixel 2047 of the documented example has been rescaled to depth 8
C7_Witness == pcR = "done" /\ depth = 8 /\ pixel = 2047 /\ resR = <<127, 1>>

(***************************************************************************)
(* batch_stitch_stack (lines 15-64), run by several workers, each on its   *)
(* own wells of the file dictionary, with one output root.                 *)
(*                                                                         *)
(* A worker is a sequential run of the loop of line 40.  snail_stitch      *)
(* raises when a tile cannot be read or the channel has fewer than 25      *)
(* files, stretchlim and stack_channels raise on the images they reject;   *)
(* the model lets each of the three steps succeed or raise.  An exception  *)
(* is not caught anywhere: it ends the worker's run.  The names were       *)
(* decoded by make_key2file before, so the decoding of line 41 succeeds.   *)
(*                                                                         *)
(* The wells of a batch share one channel set (a screen images every well  *)
(* with the same filters) and are listed plate by plate, as make_key2file  *)
(* lists them from the plates' directories; they are dealt to the workers  *)
(* in turn, so wells of one plate go to different workers.  The output     *)
(* root starts empty.                                                      *)
(***************************************************************************)
Workers == 1..NumWorkers
WellIds == 1..NumWells
Plates == 1..NumPlates

\* the channel sets an acquisition can have files for
ChannelSets == (SUBSET (0..2)) \ {{}}

RECURSIVE SortedKeys(_)
SortedKeys(S) ==
    IF S = {} THEN << >> ELSE <<Min(S)>> \o SortedKeys(S \ {Min(S)})

\* lines 46-51: sorted(channels.items()) of the padded grouping of well w
Items(w) ==
    LET ch == PadChannels([c \in wells[w].chans |-> Some(c)])
        keys == SortedKeys(DOMAIN ch)
    IN [i \in 1..Len(keys) |->
          [channel |-> keys[i], present |-> ch[keys[i]] # None]]

\* line 40: the wells of worker k, in the order of its dictionary
WellsOf(k) ==
    SelectSeq([w \in WellIds |-> w], LAMBDA w : ((w - 1) % NumWorkers) + 1 = k)

Current(k) == Head(todo[k])

InitBatch ==
    /\ \E cs \in ChannelSets :
         wells \in [WellIds -> [plate : Plates, chans : {cs}]]
    /\ \A w \in WellIds \ {NumWells} : wells[w].plate <= wells[w + 1].plate
    /\ todo = [k \in Workers |-> WellsOf(k)]
    /\ pcB = [k \in Workers |-> "begin"]
    /\ chanB = [k \in Workers |-> 1]
    /\ dirs = {}
    /\ written = {}
    /\ stitchedOk = [w \in WellIds |-> {}]
    /\ rescaledOk = [w \in WellIds |-> {}]
    /\ stackedOk = {}
    /\ failedB = {}
    /\ errB = [k \in Workers |-> "none"]
    /\ IdleStitch /\ IdleGroup /\ IdleStack /\ IdleDecode /\ IdleRescale

Others == <<stitchVars, groupVars, stackVars, decodeVars, rescaleVars>>

\* lines 40-50: the next well of the loop: its name, its channel grouping
BeginWell(k) ==
    /\ pcB[k] = "begin"
    /\ todo[k] # << >>
    /\ pcB' = [pcB EXCEPT ![k] = "channel"]
    /\ chanB' = [chanB EXCEPT ![k] = 1]
    /\ UNCHANGED <<wells, todo, dirs, written, stitchedOk, rescaledOk,
                   stackedOk, failedB, errB, Others>>

\* line 40: the loop is over
FinishRun(k) ==
    /\ pcB[k] = "begin"
    /\ todo[k] = << >>
    /\ pcB' = [pcB EXCEPT ![k] = "done"]
    /\ UNCHANGED <<wells, todo, chanB, dirs, written, stitchedOk, rescaledOk,
                   stackedOk, failedB, errB, Others>>

\* where line 51 goes after the item at index i
AfterItem(k, i) ==
    IF i < Len(Items(Current(k))) THEN "channel" ELSE "stack"

\* lines 52-53: images.append(None)
SkipAbsent(k) ==
    /\ pcB[k] = "channel"
    /\ ~Items(Current(k))[chanB[k]].present
    /\ pcB' = [pcB EXCEPT ![k] = AfterItem(k, chanB[k])]
    /\ chanB' = [chanB EXCEPT ![k] = @ + 1]
    /\ UNCHANGED <<wells, todo, dirs, written, stitchedOk, rescaledOk,
                   stackedOk, failedB, errB, Others>>

\* line 55: snail_stitch returns
StitchOk(k) ==
    /\ pcB[k] = "channel"
    /\ Items(Current(k))[chanB[k]].present
    /\ stitchedOk' = [stitchedOk EXCEPT ![Current(k)] =
                         @ \cup {Items(Current(k))[chanB[k]].channel}]
    /\ pcB' = [pcB EXCEPT ![k] = "rescale"]
    /\ UNCHANGED <<wells, todo, chanB, dirs, written, rescaledOk,
                   stackedOk, failedB, errB, Others>>

\* a slip: the exception is swallowed and the loop goes on
StitchFailSwallowed(k) ==
    /\ pcB[k] = "channel"
    /\ Items(Current(k))[chanB[k]].present
    /\ failedB' = failedB \cup {Current(k)}
    /\ pcB' = [pcB EXCEPT ![k] = AfterItem(k, chanB[k])]
    /\ chanB' = [chanB EXCEPT ![k] = @ + 1]
    /\ UNCHANGED <<wells, todo, dirs, written, stitchedOk, rescaledOk,
                   stackedOk, errB, Others>>

\* line 55: snail_stitch raises; the exception leaves batch_stitch_stack
StitchFail(k) ==
    /\ pcB[k] = "channel"
    /\ Items(Current(k))[chanB[k]].present
    /\ failedB' = failedB \cup {Current(k)}
    /\ pcB' = [pcB EXCEPT ![k] = "failed"]
    /\ errB' = [errB EXCEPT ![k] = "StitchError"]
    /\ UNCHANGED <<wells, todo, chanB, dirs, written, stitchedOk, rescaledOk,
                   stackedOk, Others>>

\* lines 56-57: rescale_from_12bit returns, the image is appended
RescaleOk(k) ==
    /\ pcB[k] = "rescale"
    /\ rescaledOk' = [rescaledOk EXCEPT ![Current(k)] =
                         @ \cup {Items(Current(k))[chanB[k]].channel}]
    /\ pcB' = [pcB EXCEPT ![k] = AfterItem(k, chanB[k])]
    /\ chanB' = [chanB EXCEPT ![k] = @ + 1]
    /\ UNCHANGED <<wells, todo, dirs, written, stitchedOk,
                   stackedOk, failedB, errB, Others>>

\* line 56: rescale_from_12bit raises
RescaleFail(k) ==
    /\ pcB[k] = "rescale"
    /\ failedB' = failedB \cup {Current(k)}
    /\ pcB' = [pcB EXCEPT ![k] = "failed"]
    /\ errB' = [errB EXCEPT ![k] = "RescaleError"]
    /\ UNCHANGED <<wells, todo, chanB, dirs, written, stitchedOk, rescaledOk,
                   stackedOk, Others>>

\* line 59: stack_channels returns
StackOk(k) ==
    /\ pcB[k] = "stack"
    /\ stackedOk' = stackedOk \cup {Current(k)}
    /\ pcB' = [pcB EXCEPT ![k] = "exists"]
    /\ UNCHANGED <<wells, todo, chanB, dirs, written, stitchedOk, rescaledOk,
                   failedB, errB, Others>>

\* line 59: stack_channels raises
StackFail(k) ==
    /\ pcB[k] = "stack"
    /\ failedB' = failedB \cup {Current(k)}
    /\ pcB' = [pcB EXCEPT ![k] = "failed"]
    /\ errB' = [errB EXCEPT ![k] = "StackError"]
    /\ UNCHANGED <<wells, todo, chanB, dirs, written, stitchedOk, rescaledOk,
                   stackedOk, Others>>

\* lines 61-62: os.path.exists(out_dir)
CheckDir(k) ==
    /\ pcB[k] = "exists"
    /\ pcB' = [pcB EXCEPT ![k] =
                 IF wells[Current(k)].plate \in dirs THEN "imsave" ELSE "makedirs"]
    /\ UNCHANGED <<wells, todo, chanB, dirs, written, stitchedOk, rescaledOk,
                   stackedOk, failedB, errB, Others>>

\* line 63: os.makedirs(out_dir), which raises FileExistsError when the
\* directory exists
Makedirs(k) ==
    /\ pcB[k] = "makedirs"
    /\ IF wells[Current(k)].plate \in dirs
       THEN /\ pcB' = [pcB EXCEPT ![k] = "failed"]
            /\ errB' = [errB EXCEPT ![k] = "FileExistsError"]
            /\ UNCHANGED dirs
       ELSE /\ dirs' = dirs \cup {wells[Current(k)].plate}
            /\ pcB' = [pcB EXCEPT ![k] = "imsave"]
            /\ UNCHANGED errB
    /\ UNCHANGED <<wells, todo, chanB, written, stitchedOk, rescaledOk,
                   stackedOk, failedB, Others>>

\* line 64: io.imsave, then the next iteration of line 40
Imsave(k) ==
    /\ pcB[k] = "imsave"
    /\ written' = written \cup {Current(k)}
    /\ todo' = [todo EXCEPT ![k] = Tail(@)]
    /\ pcB' = [pcB EXCEPT ![k] = "begin"]
    /\ UNCHANGED <<wells, chanB, dirs, stitchedOk, rescaledOk,
                   stackedOk, failedB, errB, Others>>

NextBatch ==
    \/ \E k \in Workers : BeginWell(k)
    \/ \E k \in Workers : FinishRun(k)
    \/ \E k \in Workers : SkipAbsent(k)
    \/ \E k \in Workers : StitchOk(k)
    \/ \E k \in Workers : StitchFail(k)
    \/ \E k \in Workers : RescaleOk(k)
    \/ \E k \in Workers : RescaleFail(k)
    \/ \E k \in Workers : StackOk(k)
    \/ \E k \in Workers : StackFail(k)
    \/ \E k \in Workers : CheckDir(k)
    \/ \E k \in Workers : Makedirs(k)
    \/ \E k \in Workers : Imsave(k)

SpecBatch == InitBatch /\ [][NextBatch]_vars

\* C8: a well's image is written only after the stitch and the rescale of
\* each of its present channels and the stack have succeeded; a well for
\* which one of these steps failed has no output file, ever.
C8_WriteAfterAllSteps ==
    /\ \A w \in written :
         /\ wells[w].chans \subseteq stitchedOk[w]
         /\ wells[w].chans \subseteq rescaledOk[w]
         /\ w \in stackedOk
    /\ failedB \cap written = {}

\* one worker has written a well of two or more channels and gone on to a
\* well for which a step failed
C8_Witness ==
    \E k \in Workers, w1 \in written, w2 \in failedB :
        /\ Cardinality(wells[w1].chans) >= 2
        /\ w1 # w2
        /\ ((w1 - 1) % NumWorkers) + 1 = k
        /\ ((w2 - 1) % NumWorkers) + 1 = k

\* C9: with workers on wells of one plate, under every interleaving of the
\* existence checks and the directory creations, no worker fails with
\* 'already exists': each one goes on to write its image.
C9_RaceSafeDirectory ==
    \A k \in Workers : errB[k] # "FileExistsError"

====
